---- MODULE Spec2Model ----
(***************************************************************************)
(* A model of the window manager "daily": the Window / Screen / WinMan     *)
(* state machine of src/src/window.rs, src/src/screen.rs and               *)
(* src/src/winman.rs, and the tiling strategies of src/src/layout/.        *)
(*                                                                         *)
(* The X server is modelled by what the program reads back from it: the    *)
(* input-focus register (set only by set_input_focus) and the geometry of  *)
(* each frame window (set only by configure_window).                       *)
(*                                                                         *)
(* Option<T> values are sequences of length at most one: None is <<>> and  *)
(* Some(x) is <<x>>.                                                       *)
(***************************************************************************)
EXTENDS Integers, Sequences, FiniteSets, TLC

\* ------------------------------------------------------------- bounds ---
\* Client windows are 1..MaxWin (their inner ids).
MaxWin == 3
\* Size of the screen pool (MAX_SCREENS of winman.rs, scaled down).
NumScreens == 2
\* The display reports between 1 and MaxMon monitors.
MaxMon == 2
\* Monitors of the display in the specification of the core machine.
CoreMon == 1
\* Client windows in the specification of screen switching: 1..SwitchWin.
SwitchWin == 2

\* A strategy is given a slice of 1..MaxN windows.
MaxN == 24
\* Client windows in the specification of geometry: 1..GeomWin.
GeomWin == 2
\* The pointer is at 0 or at DragStep on either axis.
DragStep == 300
\* A frame taller than MaxFloatH or further than MaxFloatX from the origin is
\* not dragged again.
MaxFloatH == 632
MaxFloatX == 450

\* A BarHandle is called at most MaxCalls times.
MaxCalls == 2
\* The event channel of the bar holds at most MaxQueue events in the model.
MaxQueue == 3

\* ------------------------------------------------- program constants ---
\* height of the bar strip and of the decoration strip of a frame
BAR_HEIGHT == 16
FRAME_STRIP == 16
\* config.border.width of the default configuration
BORDER_WIDTH == 1
\* initial ratio of the horizontal split, its step and its limits
RATIO_INIT == 50
RATIO_STEP == 5
RATIO_MIN == 5
RATIO_MAX == 95
\* InputFocus::NONE, what get_focused_window maps to None
NONE == 0

\* -------------------------------------------------------- identifiers ---
W == 1..MaxWin
ScreenIds == 0..(NumScreens - 1)

\* id of the frame that Window::new creates around inner window w
Frame(w) == MaxWin + w
\* the root window
Root == 2 * MaxWin + 1
\* the background and the bar window of screen s
Bg(s) == Root + 1 + s
Bar(s) == Root + 1 + NumScreens + s

None == <<>>
Some(x) == <<x>>
IsSome(o) == o # <<>>
Unwrap(o) == o[1]

\* ----------------------------------------------------------- monitors ---
\* geometry of the monitor with id m: equal monitors side by side
MonW == 900
MonH == 616
MonitorInfo(m) == [x |-> m * MonW, y |-> 0, width |-> MonW, height |-> MonH]

\* client geometry that Window::new copies to the new frame
ClientGeo == [x |-> 0, y |-> 0, width |-> 100, height |-> 100, border_width |-> BORDER_WIDTH]

\* ------------------------------------------------- layout strategies ---
\* A strategy yields the ConfigureWindowAux of each window of the slice, in
\* slice order.  width and height are the u32 differences of the source; a
\* negative value stands for the u32 subtraction that underflows there (a
\* panic in a debug build, a wrapped value near 2^32 in a release build).

\* u16 / u32 division
Div(a, b) == a \div b

\* Horizontal::layout; n = windows.len()
HorizontalMainW(mon, n, ratio) ==
    IF n > 1 THEN Div(mon.width * ratio, 100) ELSE mon.width

HorizontalRestW(mon, n, ratio) ==
    IF n > 1 THEN Div(mon.width - HorizontalMainW(mon, n, ratio), n - 1) ELSE 0

\* the running x before the i-th window (i from 1) is configured
HorizontalSliceX(mon, n, ratio, i) ==
    IF i = 1 THEN 0
    ELSE HorizontalMainW(mon, n, ratio) + (i - 2) * HorizontalRestW(mon, n, ratio)

HorizontalLayout(mon, n, ratio, border_visible) ==
    LET bw == IF border_visible THEN BORDER_WIDTH ELSE 0
        main_w == HorizontalMainW(mon, n, ratio)
        w == HorizontalRestW(mon, n, ratio)
    IN  [i \in 1..n |->
            [x |-> mon.x + HorizontalSliceX(mon, n, ratio, i),
             y |-> mon.y,
             border_width |-> bw,
             width |-> (IF i = 1 THEN main_w ELSE w) - bw * 2,
             height |-> mon.height - bw * 2]]

\* HorizontalWithBorder::layout: the flag of the screen is dropped
HorizontalWithBorderLayout(mon, n, ratio, border_visible) ==
    HorizontalLayout(mon, n, ratio, TRUE)

\* process_command that changes the ratio without looking at its bounds
HorizontalProcessCommandUnclamped(ratio, cmd) ==
    CASE cmd = "+" -> ratio + RATIO_STEP
      [] cmd = "-" -> ratio - RATIO_STEP
      [] OTHER -> ratio

\* Horizontal::process_command
HorizontalProcessCommand(ratio, cmd) ==
    CASE cmd = "+" -> IF ratio < RATIO_MAX THEN ratio + RATIO_STEP ELSE ratio
      [] cmd = "-" -> IF ratio > RATIO_MIN THEN ratio - RATIO_STEP ELSE ratio
      [] OTHER -> ratio

\* HorizontalLayout::layout of layout.rs, the equal split
EqualSplitLayout(mon, n, border_visible) ==
    LET bw == IF border_visible THEN BORDER_WIDTH ELSE 0
        w == Div(mon.width, n)
    IN  [i \in 1..n |->
            [x |-> mon.x + (i - 1) * w,
             y |-> mon.y,
             border_width |-> bw,
             width |-> w - bw * 2,
             height |-> mon.height - bw * 2]]

\* Vertical::layout
VerticalLayout(mon, n, border_visible) ==
    LET bw == IF border_visible THEN BORDER_WIDTH ELSE 0
        h == IF n = 0 THEN 0 ELSE Div(mon.height, n)
    IN  [i \in 1..n |->
            [x |-> mon.x,
             y |-> mon.y + (i - 1) * h,
             border_width |-> bw,
             width |-> mon.width - bw * 2,
             height |-> h - bw * 2]]

\* VerticalWithBorder::layout
VerticalWithBorderLayout(mon, n, border_visible) ==
    VerticalLayout(mon, n, TRUE)

\* FullScreen::layout
FullScreenLayout(mon, n) ==
    [i \in 1..n |->
        [x |-> mon.x, y |-> mon.y, border_width |-> 0,
         width |-> mon.width, height |-> mon.height]]

\* the ring of Screen::new: names of layouts[0], layouts[1], layouts[2]
LayoutRing == <<"horizontal-with-border", "vertical-with-border", "full-screen">>

\* Layout::layout of the strategy whose name() is name
StrategyLayout(name, mon, n, ratio, border_visible) ==
    CASE name = "horizontal" -> HorizontalLayout(mon, n, ratio, border_visible)
      [] name = "horizontal-with-border" ->
            HorizontalWithBorderLayout(mon, n, ratio, border_visible)
      [] name = "vertical" -> VerticalLayout(mon, n, border_visible)
      [] name = "vertical-with-border" ->
            VerticalWithBorderLayout(mon, n, border_visible)
      [] OTHER -> FullScreenLayout(mon, n)

\* Layout::process_command of the strategy whose name() is name
StrategyProcessCommand(name, ratio, cmd) ==
    IF name \in {"horizontal", "horizontal-with-border"}
    THEN HorizontalProcessCommand(ratio, cmd)
    ELSE ratio

\* ---------------------------------------------------------------- bar ---
\* enum Request
Requests == {"GetWindowId", "Configure", "UpdateContent", "Show", "Hide"}

\* the response thread_main sends for a request it has served
ResponseTo(req) == IF req = "GetWindowId" THEN "WindowId" ELSE "Success"

\* the response a BarHandle operation accepts; any other is a panic
Accepts(req) == IF req = "GetWindowId" THEN "WindowId" ELSE "Success"

\* the requests Bar serves with `?`: its X11 requests can fail
Fallible == Requests \ {"GetWindowId"}

\* BarHandle::new: the two channels, and thread_main before Bar::new
BarHandleNew ==
    [caller |-> "idle", op |-> "none", reqchan |-> <<>>, respchan |-> <<>>,
     queue |-> <<>>, main |-> "starting", redirector |-> "running",
     timer |-> "running", x11 |-> "running",
     sent |-> 0, answered |-> 0, received |-> 0]

\* bar-main ending with response_tx still held somewhere
MainStopsKeepingSender(b) == [b EXCEPT !.main = "ended", !.queue = <<>>]

\* the closure of bar-main returns or panics: response_tx and the receiver
\* of the event channel are dropped
MainStops(b) == [b EXCEPT !.main = "stopped", !.queue = <<>>]

\* BarHandle::send followed by the start of BarHandle::recv
HandleSend(b, req) ==
    IF b.redirector # "running"
    THEN [b EXCEPT !.caller = "failed"]
    ELSE [b EXCEPT !.caller = "waiting", !.op = req,
                   !.reqchan = Append(@, req), !.sent = @ + 1]

\* BarHandle::recv returns a response, and the match on it
HandleRecv(b) ==
    IF Head(b.respchan) = Accepts(b.op)
    THEN [b EXCEPT !.caller = "idle", !.respchan = Tail(@), !.received = @ + 1]
    ELSE [b EXCEPT !.caller = "panicked", !.respchan = Tail(@)]

\* BarHandle::recv returns Err: the channel is empty and response_tx is gone
HandleRecvDisconnected(b) == [b EXCEPT !.caller = "failed"]

\* thread_daily_request_redirector: one turn of its loop with a request
RedirectRequest(b) ==
    IF b.main = "stopped"
    THEN [b EXCEPT !.redirector = "panicked", !.reqchan = <<>>]
    ELSE [b EXCEPT !.reqchan = Tail(@),
                   !.queue = Append(@, [kind |-> "Request", req |-> Head(b.reqchan)])]

\* thread_daily_request_redirector: one turn of its loop when recv is Err
RedirectDisconnected(b) ==
    IF b.main = "stopped"
    THEN [b EXCEPT !.redirector = "panicked", !.reqchan = <<>>]
    ELSE [b EXCEPT !.queue = Append(@, [kind |-> "Disconnected", req |-> "none"])]

\* thread_timer and thread_x11_event_consumer: one turn of the loop of
\* thread who, which sends an event of kind kind
Produce(b, who, kind) ==
    IF b.main = "stopped"
    THEN [b EXCEPT ![who] = "panicked"]
    ELSE [b EXCEPT !.queue = Append(@, [kind |-> kind, req |-> "none"])]

\* thread_main: the request served, the response is sent
MainAnswers(b, req) ==
    IF b.caller \in {"dropped", "failed", "panicked"}
    THEN MainStops(b)
    ELSE [b EXCEPT !.queue = Tail(@), !.respchan = Append(@, ResponseTo(req)),
                   !.answered = @ + 1]

\* thread_main answering an event that is not a request
MainGoesOnAnswering(b) ==
    [b EXCEPT !.queue = Tail(@), !.respchan = Append(@, "Success"),
              !.answered = @ + 1]

\* thread_main: an event served that has no response
MainGoesOn(b) == [b EXCEPT !.queue = Tail(@)]

\* thread_main: one turn of its loop; ok tells whether the X11 requests of
\* the Bar succeeded
MainTurn(b, ok) ==
    LET ev == Head(b.queue)
    IN  IF ev.kind = "Disconnected" THEN MainStops(b)
        ELSE IF ev.kind = "Request"
        THEN IF ok \/ ev.req \notin Fallible THEN MainAnswers(b, ev.req)
             ELSE MainStops(b)
        ELSE IF ok THEN MainGoesOn(b) ELSE MainStops(b)

\* -------------------------------------------------------------- state ---
VARIABLES
    scr,          \* WinMan.screens: per screen id, the Screen
    win,          \* the Window wrapping each client window
    focus,        \* the input focus of the X server
    geom,         \* the X server's geometry of each frame
    drag,         \* WinMan.drag
    monitor_num,  \* WinMan.monitor_num
    log,          \* the requests and map edits of the last handler, in order
    status,       \* "running", or how the process ended
    observe,      \* which of the write-only records (log, geom) are kept
    lay,          \* a layout strategy, the slice it is given and its requests
    exit,         \* how main ended: the error start returned and its report
    bar           \* a BarHandle, its channels and the threads of its bar

vars == <<scr, win, focus, geom, drag, monitor_num, log, status, observe, lay,
          exit, bar>>

\* The handlers are sequential code: each is a function from the state as a
\* record to the state after it.  A step that panics or never returns sets
\* status, and every later step of the handler is skipped.
\*
\* log is written and never read by the program; geom is read only by the
\* pointer handlers (get_geometry); the highlight of a window only chooses
\* the colour it is drawn in.  A specification whose actions never read
\* one of them may leave it out of observe, and it then keeps its initial
\* value: the program's behaviour is the same, the state space is smaller.
St == [scr |-> scr, win |-> win, focus |-> focus, geom |-> geom, drag |-> drag,
       monitor_num |-> monitor_num, log |-> log, status |-> status,
       observe |-> observe, exit |-> exit]

Apply(st) ==
    \E r \in {st} :
        /\ scr' = r.scr
        /\ win' = r.win
        /\ focus' = r.focus
        /\ geom' = r.geom
        /\ drag' = r.drag
        /\ monitor_num' = r.monitor_num
        /\ log' = r.log
        /\ status' = r.status
        /\ observe' = r.observe
        /\ lay' = lay
        /\ exit' = r.exit
        /\ bar' = bar

Running(st) == st.status = "running"
Panic(st) == [st EXCEPT !.status = "panic"]
Hang(st) == [st EXCEPT !.status = "hang"]
\* main: start returned Err(e).  Quit is logged as information, every other
\* error as an error, and main returns, so the exit status is that of a
\* main that returned
EXIT_SUCCESS == 0
Report(e) ==
    [error |-> e, level |-> IF e = "Quit" THEN "info" ELSE "error",
     code |-> EXIT_SUCCESS]

\* the handler returns Err(e): handle_event passes it on, the `?` of the
\* event loop returns it from start, and main reports it
Raise(st, e) ==
    IF ~Running(st) THEN st
    ELSE [st EXCEPT !.status = "error", !.exit = Some(Report(e))]

\* the handler returns the X11 error of a request on a drawable that is gone
Fail(st) == Raise(st, "Drawable")
Emit(st, op, id) ==
    IF "log" \in st.observe
    THEN [st EXCEPT !.log = Append(@, [op |-> op, id |-> id])]
    ELSE st

\* a Window as Window::new returns it, before it is mapped
NewWindow(state) ==
    [state |-> state, hidden |-> FALSE, float_geometry |-> None,
     frame_visible |-> FALSE, highlighted |-> FALSE]

\* ------------------------------------------------------------- Window ---
\* Context::focus_window
FocusWindow(st, wid) == Emit([st EXCEPT !.focus = wid], "set_input_focus", wid)

\* Context::get_focused_window
GetFocusedWindow(st) == IF st.focus = NONE THEN None ELSE Some(st.focus)

IsMapped(st, w) == st.win[w].state = "Mapped"
IsViewable(st, w) == ~st.win[w].hidden /\ st.win[w].state = "Mapped"
IsFloating(st, w) == IsSome(st.win[w].float_geometry)

\* the map_window requests of Window::map
MapRequests(st, w) ==
    IF ~st.win[w].hidden
    THEN Emit(Emit(st, "map_window", Frame(w)), "map_window", w)
    ELSE st

\* map that requests the focus whatever the state of the window
WindowMapAlwaysFocus(st, w) ==
    IF ~Running(st) THEN st ELSE
    LET s1 == FocusWindow(MapRequests(Emit(st, "map", w), w), w)
    IN  [s1 EXCEPT !.win[w].state = "Mapped"]

\* Window::map
WindowMap(st, w) ==
    IF ~Running(st) THEN st ELSE
    LET s1 == MapRequests(Emit(st, "map", w), w)
        s2 == IF s1.win[w].state = "Created" THEN FocusWindow(s1, w) ELSE s1
    IN  [s2 EXCEPT !.win[w].state = "Mapped"]

\* Window::unmap
WindowUnmap(st, w) ==
    IF ~Running(st) THEN st ELSE
    Emit([st EXCEPT !.win[w].state = "Unmapped"], "unmap_window", Frame(w))

\* Window::show
WindowShow(st, w) ==
    IF ~Running(st) THEN st ELSE
    IF ~st.win[w].hidden THEN Panic(st) ELSE
    Emit([st EXCEPT !.win[w].hidden = FALSE], "map_window", Frame(w))

\* Window::hide
WindowHide(st, w) ==
    IF ~Running(st) THEN st ELSE
    IF st.win[w].hidden THEN Panic(st) ELSE
    Emit([st EXCEPT !.win[w].hidden = TRUE], "unmap_window", Frame(w))

\* Window::configure: the fields of aux replace those of the frame's
\* geometry; the height of the client window is the u32 difference of the
\* frame's height and the strip, which underflows when it is negative
WindowConfigure(st, w, aux) ==
    IF ~Running(st) THEN st ELSE
    IF "geom" \notin st.observe THEN st ELSE
    LET strip == IF st.win[w].frame_visible THEN FRAME_STRIP ELSE 0
        s1 == [st EXCEPT !.geom[w] =
                  [f \in DOMAIN @ |-> IF f \in DOMAIN aux THEN aux[f] ELSE @[f]]]
    IN  IF "height" \in DOMAIN aux /\ aux.height - strip < 0
        THEN Panic(s1) ELSE s1

\* Window::float
WindowFloat(st, w, rect) ==
    IF ~Running(st) THEN st ELSE
    [st EXCEPT !.win[w].frame_visible = TRUE,
               !.win[w].float_geometry =
                   Some([rect EXCEPT !.height = @ + FRAME_STRIP])]

\* Window::sink
WindowSink(st, w) ==
    IF ~Running(st) THEN st ELSE
    [st EXCEPT !.win[w].frame_visible = FALSE,
               !.win[w].float_geometry = None]

\* Window::set_float_geometry
SetFloatGeometry(st, w, rect) ==
    IF ~Running(st) THEN st ELSE
    IF ~IsFloating(st, w) THEN Panic(st) ELSE
    [st EXCEPT !.win[w].float_geometry = Some(rect)]

\* ------------------------------------------------------------- Screen ---
\* Window::contains for the window wrapping client w
WindowContains(w, wid) == wid = w \/ wid = Frame(w)

Range(seq) == {seq[i] : i \in 1..Len(seq)}

\* BTreeMap::insert under key Frame(w): wins is kept in ascending key order
BTreeInsert(seq, w) ==
    IF w \in Range(seq) THEN seq
    ELSE SelectSeq(seq, LAMBDA v : Frame(v) < Frame(w)) \o <<w>> \o
         SelectSeq(seq, LAMBDA v : Frame(v) > Frame(w))

\* BTreeMap::remove
BTreeRemove(seq, w) == SelectSeq(seq, LAMBDA v : v # w)

\* sort_unstable_by_key(|w| w.frame())
RECURSIVE SortByFrame(_)
SortByFrame(seq) ==
    IF seq = <<>> THEN <<>>
    ELSE LET m == CHOOSE v \in Range(seq) :
                      \A u \in Range(seq) : Frame(v) <= Frame(u)
         IN  <<m>> \o SortByFrame(SelectSeq(seq, LAMBDA v : v # m))

\* Screen::contains
ScreenContains(st, s, wid) ==
    \/ wid = Bg(s)
    \/ wid = Bar(s)
    \/ \E w \in Range(st.scr[s].wins) : WindowContains(w, wid)

\* Screen::window_mut: the window found, named by its inner id
ScreenWindowMut(st, s, wid) ==
    IF wid = Bg(s) THEN Some(Bg(s))
    ELSE IF wid = Bar(s) THEN Some(Bar(s))
    ELSE LET found == SelectSeq(st.scr[s].wins, LAMBDA w : WindowContains(w, wid))
         IN  IF found = <<>> THEN None ELSE Some(Head(found))

\* TiledWindows with the sort key reversed
TiledWindowsDescending(st, s) ==
    LET a == SortByFrame(SelectSeq(st.scr[s].wins,
                 LAMBDA w : IsMapped(st, w) /\ ~IsFloating(st, w)))
    IN  [i \in 1..Len(a) |-> a[Len(a) + 1 - i]]

\* the mapped, non-floating windows that refresh_layout hands to the strategy
TiledWindows(st, s) ==
    SortByFrame(SelectSeq(st.scr[s].wins,
                          LAMBDA w : IsMapped(st, w) /\ ~IsFloating(st, w)))

\* the mapped floating windows of refresh_layout
FloatingWindows(st, s) ==
    SelectSeq(st.scr[s].wins, LAMBDA w : IsMapped(st, w) /\ IsFloating(st, w))

\* the rectangle refresh_layout gives the strategy: the bar strip is reserved
LayoutArea(name, info) ==
    IF name # "full-screen"
    THEN [info EXCEPT !.y = @ + BAR_HEIGHT, !.height = @ - BAR_HEIGHT]
    ELSE info

IndexOf(seq, v) == CHOOSE i \in 1..Len(seq) : seq[i] = v

\* the rectangle refresh_layout applies to a floating window
FloatingRect(info, geo) ==
    [x |-> info.x + geo.x, y |-> info.y + geo.y,
     width |-> geo.width, height |-> geo.height]

\* the last block of refresh_layout: set_highlight on every mapped window
UpdateHighlight(st, s) ==
    IF "highlight" \notin st.observe THEN st ELSE
    [st EXCEPT !.win = [w \in W |->
        IF w \in Range(st.scr[s].wins) /\ IsMapped(st, w)
        THEN [@[w] EXCEPT !.highlighted = WindowContains(w, st.focus)]
        ELSE @[w]]]

\* Screen::refresh_layout
RefreshLayout(st, s) ==
    IF ~Running(st) THEN st ELSE
    IF ~IsSome(st.scr[s].monitor) THEN st ELSE
    LET info == MonitorInfo(Unwrap(st.scr[s].monitor))
        name == LayoutRing[st.scr[s].current_layout + 1]
        tiled == TiledWindows(st, s)
        floating == FloatingWindows(st, s)
        confs == StrategyLayout(name, LayoutArea(name, info), Len(tiled),
                            st.scr[s].ratio, st.scr[s].border_visible)
    IN  IF \E i \in 1..Len(tiled) : confs[i].width < 0 \/ confs[i].height < 0
        THEN Panic(st)
        ELSE IF "geom" \notin st.observe THEN UpdateHighlight(st, s)
        ELSE UpdateHighlight([st EXCEPT !.geom = [w \in W |->
                 IF w \in Range(tiled) THEN confs[IndexOf(tiled, w)]
                 ELSE IF w \in Range(floating)
                 THEN [f \in DOMAIN @[w] |->
                        LET r == FloatingRect(info, Unwrap(st.win[w].float_geometry))
                        IN  IF f \in DOMAIN r THEN r[f] ELSE @[w][f]]
                 ELSE @[w]]], s)

\* Screen::focus_any
FocusAny(st, s) ==
    IF ~Running(st) THEN st ELSE
    LET cand == SelectSeq(st.scr[s].wins,
                          LAMBDA w : st.win[w].state \in {"Mapped", "Hidden"})
    IN  IF cand # <<>> THEN FocusWindow(st, Head(cand))
        ELSE FocusWindow(st, Bg(s))

\* Screen::focus_next
FocusNext(st, s) ==
    IF ~Running(st) THEN st ELSE
    LET old == IF st.focus = NONE THEN NONE ELSE st.focus
    IN  IF ~ScreenContains(st, s, old) \/ old = Bg(s) \/ old = Bar(s)
        THEN FocusAny(st, s)
        ELSE LET cur == Unwrap(ScreenWindowMut(st, s, old))
                 mapped == SelectSeq(st.scr[s].wins, LAMBDA w : IsMapped(st, w))
             IN  IF mapped = <<>> THEN Panic(st)
                 ELSE IF cur \notin Range(mapped) THEN Hang(st)
                 ELSE FocusWindow(st, mapped[(IndexOf(mapped, cur) % Len(mapped)) + 1])

\* the loop of Screen::attach over wins.values_mut()
RECURSIVE AttachWindows(_, _)
AttachWindows(st, seq) ==
    IF seq = <<>> THEN st
    ELSE LET w == Head(seq)
             s1 == IF st.win[w].state \in {"Mapped", "Hidden"}
                   THEN WindowMap(st, w) ELSE st
         IN  AttachWindows(s1, Tail(seq))

\* Screen::attach without the map of the background
AttachLeavesBackground(st, s, m) ==
    IF ~Running(st) THEN st ELSE
    LET s1 == [st EXCEPT !.scr[s].monitor = Some(m)]
    IN  AttachWindows(s1, s1.scr[s].wins)

\* Screen::attach
Attach(st, s, m) ==
    IF ~Running(st) THEN st ELSE
    LET s1 == [st EXCEPT !.scr[s].monitor = Some(m),
                         !.scr[s].background = "Mapped"]
    IN  AttachWindows(s1, s1.scr[s].wins)

\* the loop of Screen::detach over wins.values_mut()
RECURSIVE DetachWindows(_, _)
DetachWindows(st, seq) ==
    IF seq = <<>> THEN st
    ELSE LET w == Head(seq)
             s1 == IF IsMapped(st, w) THEN WindowHide(st, w) ELSE st
         IN  DetachWindows(s1, Tail(seq))

\* detach that hides the windows and leaves the monitor with the screen
DetachKeepsMonitor(st, s) ==
    IF ~Running(st) THEN st ELSE
    IF ~IsSome(st.scr[s].monitor) THEN st ELSE
    DetachWindows([st EXCEPT !.scr[s].background = "Unmapped"],
                  st.scr[s].wins)

\* Screen::detach: the state after it; it returns the monitor held before
Detach(st, s) ==
    IF ~Running(st) THEN st ELSE
    IF ~IsSome(st.scr[s].monitor) THEN st ELSE
    LET s1 == [st EXCEPT !.scr[s].background = "Unmapped"]
        s2 == DetachWindows(s1, s1.scr[s].wins)
    IN  IF Running(s2) THEN [s2 EXCEPT !.scr[s].monitor = None] ELSE s2

\* swap_monitors that gives b the monitor of a and leaves a its own
SwapMonitorsCopy(st, a, b) ==
    IF ~Running(st) THEN st ELSE
    [st EXCEPT !.scr[b].monitor = st.scr[a].monitor]

\* Screen::swap_monitors
SwapMonitors(st, a, b) ==
    IF ~Running(st) THEN st ELSE
    IF ~IsSome(st.scr[a].monitor) \/ ~IsSome(st.scr[b].monitor) THEN Panic(st) ELSE
    [st EXCEPT !.scr[a].monitor = st.scr[b].monitor,
               !.scr[b].monitor = st.scr[a].monitor]

\* Screen::add_window
AddWindow(st, s, w) ==
    IF ~Running(st) THEN st ELSE
    IF w \in Range(st.scr[s].wins) THEN st ELSE
    LET s1 == IF ~IsSome(st.scr[s].monitor) /\ IsMapped(st, w)
              THEN WindowHide(st, w) ELSE st
        s2 == IF Running(s1)
              THEN Emit([s1 EXCEPT !.scr[s].wins = BTreeInsert(@, w)], "insert", w)
              ELSE s1
    IN  RefreshLayout(s2, s)

\* Screen::forget_window
ForgetWindow(st, s, wid) ==
    IF ~Running(st) THEN st ELSE
    LET focused == GetFocusedWindow(st)
        need_focus_change ==
            IsSome(focused) /\ IsSome(ScreenWindowMut(st, s, Unwrap(focused)))
        target == ScreenWindowMut(st, s, wid)
    IN  IF ~IsSome(target) \/ Unwrap(target) \notin Range(st.scr[s].wins)
        THEN Panic(st)
        ELSE LET w == Unwrap(target)
                 s1 == Emit([st EXCEPT !.scr[s].wins = BTreeRemove(@, w)],
                            "remove", w)
                 s2 == IF need_focus_change THEN FocusNext(s1, s) ELSE s1
             IN  RefreshLayout(s2, s)

\* Drop for Window: the wrapper is gone and the client has its window back
DropWindow(st, w) ==
    IF ~Running(st) THEN st ELSE
    [st EXCEPT !.win[w] = NewWindow("Created"), !.geom[w] = ClientGeo]

\* Screen::next_layout
NextLayout(st, s) ==
    IF ~Running(st) THEN st ELSE
    RefreshLayout([st EXCEPT !.scr[s].current_layout = (@ + 1) % Len(LayoutRing)], s)

\* ------------------------------------------------------------- WinMan ---
\* WinMan::container_of_mut: the first screen that contains wid
ContainerOf(st, wid) ==
    LET found == {s \in ScreenIds : ScreenContains(st, s, wid)}
    IN  IF found = {} THEN None
        ELSE Some(CHOOSE s \in found : \A t \in found : s <= t)

\* WinMan::window_mut
WinManWindowMut(st, wid) ==
    LET c == ContainerOf(st, wid)
    IN  IF IsSome(c) THEN ScreenWindowMut(st, Unwrap(c), wid) ELSE None

\* WinMan::screen_mut_by_mon, None where the source panics with "Monitor lost"
ScreenByMon(st, mon_id) ==
    LET found == {s \in ScreenIds : st.scr[s].monitor = Some(mon_id)}
    IN  IF found = {} THEN None
        ELSE Some(CHOOSE s \in found : \A t \in found : s <= t)

\* WinMan::focused_screen_mut, None where the source panics
FocusedScreen(st) ==
    LET f == GetFocusedWindow(st)
        c == IF IsSome(f) THEN ContainerOf(st, Unwrap(f)) ELSE None
    IN  IF IsSome(c) THEN c ELSE ScreenByMon(st, 0)

\* WinMan::refresh_layout over screens s, s + 1, ...
RECURSIVE RefreshFrom(_, _)
RefreshFrom(st, s) ==
    IF s >= NumScreens THEN st ELSE RefreshFrom(RefreshLayout(st, s), s + 1)

RefreshAll(st) == RefreshFrom(st, 0)

\* WinMan::focus_changed
FocusChanged(st) == RefreshAll(st)

\* the branch of switch_screen for a target that holds no monitor
SwitchToParked(st, current_id, id) ==
    LET s1 == FocusWindow(st, Root)
        mon == s1.scr[current_id].monitor
        s2 == Detach(s1, current_id)
    IN  IF ~Running(s2) THEN s2
        ELSE IF ~IsSome(mon) THEN Panic(s2)
        ELSE FocusAny(Attach(s2, id, Unwrap(mon)), id)

\* the branch of switch_screen for a target that holds a monitor
SwitchSwap(st, a, b) ==
    IF a = b THEN st
    ELSE FocusChanged(FocusAny(SwapMonitors(st, a, b), b))

\* WinMan::switch_screen
SwitchScreen(st, id) ==
    IF ~Running(st) THEN st ELSE
    IF id >= NumScreens THEN st ELSE
    LET cur == FocusedScreen(st)
    IN  IF ~IsSome(cur) THEN Panic(st)
        ELSE IF ~IsSome(st.scr[id].monitor)
        THEN FocusChanged(SwitchToParked(st, Unwrap(cur), id))
        ELSE SwitchSwap(st, Unwrap(cur), id)

\* move_window_to_screen that inserts the window into the destination and
\* leaves it in the source
MoveWindowToScreenShared(st, id) ==
    IF ~Running(st) THEN st ELSE
    IF id >= NumScreens THEN st ELSE
    LET f == GetFocusedWindow(st)
        src == IF IsSome(f) THEN ContainerOf(st, Unwrap(f)) ELSE None
    IN  IF ~IsSome(src) THEN st
        ELSE IF Unwrap(f) = Bg(Unwrap(src)) THEN st
        ELSE LET w == Unwrap(ScreenWindowMut(st, Unwrap(src), Unwrap(f)))
             IN  IF w \notin W THEN Panic(st)
                 ELSE FocusChanged(AddWindow(st, id, w))

\* WinMan::move_window_to_screen
MoveWindowToScreen(st, id) ==
    IF ~Running(st) THEN st ELSE
    IF id >= NumScreens THEN st ELSE
    LET f == GetFocusedWindow(st)
        src == IF IsSome(f) THEN ContainerOf(st, Unwrap(f)) ELSE None
    IN  IF ~IsSome(src) THEN st
        ELSE IF Unwrap(f) = Bg(Unwrap(src)) THEN st
        ELSE LET s1 == ForgetWindow(st, Unwrap(src), Unwrap(f))
                 s2 == FocusAny(s1, Unwrap(src))
                 w == Unwrap(ScreenWindowMut(st, Unwrap(src), Unwrap(f)))
             IN  IF ~Running(s2) THEN s2
                 ELSE FocusChanged(AddWindow(s2, id, w))

\* Command::Close
CommandClose(st) ==
    IF ~Running(st) THEN st ELSE
    LET f == GetFocusedWindow(st)
        c == IF IsSome(f) THEN ContainerOf(st, Unwrap(f)) ELSE None
    IN  IF ~IsSome(c) THEN st
        ELSE IF Unwrap(f) = Bg(Unwrap(c)) THEN st
        ELSE LET s1 == ForgetWindow(st, Unwrap(c), Unwrap(f))
                 w == Unwrap(ScreenWindowMut(st, Unwrap(c), Unwrap(f)))
             IN  IF ~Running(s1) THEN s1
                 ELSE RefreshAll(DropWindow(Emit(s1, "close", w), w))

\* Command::Sink
CommandSink(st) ==
    IF ~Running(st) THEN st ELSE
    LET f == GetFocusedWindow(st)
        c == IF IsSome(f) THEN ContainerOf(st, Unwrap(f)) ELSE None
    IN  IF ~IsSome(c) THEN st
        ELSE IF Unwrap(f) = Bg(Unwrap(c)) THEN st
        ELSE LET w == Unwrap(ScreenWindowMut(st, Unwrap(c), Unwrap(f)))
             IN  IF w \in W THEN RefreshAll(WindowSink(st, w))
                 ELSE RefreshAll(st)

\* Command::FocusNext
CommandFocusNext(st) ==
    IF ~Running(st) THEN st ELSE
    LET cur == FocusedScreen(st)
    IN  IF ~IsSome(cur) THEN Panic(st)
        ELSE FocusChanged(FocusNext(st, Unwrap(cur)))

\* Command::NextLayout
CommandNextLayout(st) ==
    IF ~Running(st) THEN st ELSE
    LET cur == FocusedScreen(st)
    IN  IF ~IsSome(cur) THEN Panic(st) ELSE NextLayout(st, Unwrap(cur))

\* WinMan::focus_monitor
FocusMonitor(st, mon_id) ==
    IF ~Running(st) THEN st ELSE
    LET t == ScreenByMon(st, mon_id)
    IN  IF ~IsSome(t) THEN Panic(st)
        ELSE FocusChanged(FocusAny(st, Unwrap(t)))

\* Command::FocusNextMonitor (step = 1), Command::FocusPrevMonitor
\* (step = monitor_num - 1)
CommandFocusMonitor(st, step) ==
    IF ~Running(st) THEN st ELSE
    LET cur == FocusedScreen(st)
    IN  IF ~IsSome(cur) THEN Panic(st)
        ELSE IF ~IsSome(st.scr[Unwrap(cur)].monitor) THEN Panic(st)
        ELSE IF st.monitor_num = 0 THEN Panic(st)
        ELSE FocusMonitor(st, (Unwrap(st.scr[Unwrap(cur)].monitor) + step)
                                  % st.monitor_num)

\* Command::ShowBorder (visible = TRUE), Command::HideBorder
CommandBorder(st, visible) ==
    IF ~Running(st) THEN st ELSE
    RefreshAll([st EXCEPT !.scr =
        [s \in ScreenIds |-> [@[s] EXCEPT !.border_visible = visible]]])

\* the loop of setup_monitor that detaches screens s, s + 1, ...
RECURSIVE DetachFrom(_, _)
DetachFrom(st, s) ==
    IF s >= NumScreens THEN st ELSE DetachFrom(Detach(st, s), s + 1)

\* the loop of setup_monitor that attaches monitors m, m + 1, ... below n
RECURSIVE AttachFrom(_, _, _)
AttachFrom(st, m, n) ==
    IF m >= n THEN st ELSE AttachFrom(Attach(st, m, m), m + 1, n)

\* WinMan::setup_monitor for a topology of n monitors
SetupMonitor(st, n) ==
    IF ~Running(st) THEN st ELSE
    LET s1 == FocusWindow(st, Root)
        s2 == [s1 EXCEPT !.monitor_num = n]
    IN  AttachFrom(DetachFrom(s2, 0), 0, n)

\* WinMan::on_randr_notify, either sub code
OnRandrNotify(st, n) ==
    FocusChanged(FocusAny(SetupMonitor(st, n), 0))

\* WinMan::on_focus_in for the root window with detail PointerRoot or None
OnFocusIn(st) ==
    IF ~Running(st) THEN st ELSE
    LET t == ScreenByMon(st, 0)
    IN  IF ~IsSome(t) THEN Panic(st) ELSE FocusAny(st, Unwrap(t))

\* WinMan::on_map_request for a request whose parent is the root
OnMapRequestRoot(st, w) ==
    IF ~Running(st) THEN st ELSE
    IF IsSome(WinManWindowMut(st, w)) THEN st ELSE
    LET cur == FocusedScreen(st)
    IN  IF ~IsSome(cur) THEN Panic(st)
        ELSE LET s1 == [st EXCEPT !.win[w] = NewWindow("Created"),
                                  !.geom[w] = ClientGeo]
             IN  AddWindow(WindowMap(s1, w), Unwrap(cur), w)

\* WinMan::on_map_request for a request whose parent is the root, when the
\* client has destroyed the window before its attributes are asked: the
\* reply of get_window_attributes is the X11 error of kind Window
OnMapRequestRootGone(st, w) ==
    IF ~Running(st) THEN st ELSE
    IF IsSome(WinManWindowMut(st, w)) THEN st ELSE Raise(st, "Window")

\* Command::Quit and Command::Restart
CommandQuit(st, cmd) ==
    IF ~Running(st) THEN st ELSE
    IF cmd = "Quit" THEN Raise(st, "Quit") ELSE Raise(st, "Restart")

\* WinMan::on_key_press for a key bound to cmd
OnKeyPress(st, cmd) ==
    IF ~Running(st) THEN st ELSE CommandQuit(st, cmd)

\* wait_for_event of the event loop returns a connection error
WaitForEventFails(st) == Raise(st, "Connection")

\* WinMan::on_map_request for a request whose parent is the frame of w
OnMapRequestFrame(st, w) ==
    IF ~Running(st) THEN st ELSE
    LET t == WinManWindowMut(st, Frame(w))
    IN  IF ~IsSome(t) THEN st ELSE WindowMap(st, Unwrap(t))

\* WinMan::on_unmap_notify for event = the frame of w, window = w
OnUnmapNotify(st, w) ==
    IF ~Running(st) THEN st ELSE
    LET t == WinManWindowMut(st, Frame(w))
    IN  IF ~IsSome(t) THEN st ELSE FocusChanged(WindowUnmap(st, Unwrap(t)))

\* on_destroy_notify that refreshes and leaves the window where it is
OnDestroyNotifyKeepsWindow(st, w) ==
    IF ~Running(st) THEN st ELSE FocusChanged(st)

\* on_unmap_notify that takes the window from the notification, not from
\* the event window
OnUnmapNotifyOfAnyWindow(st, event, window) ==
    IF ~Running(st) THEN st ELSE
    LET t == WinManWindowMut(st, window)
    IN  IF ~IsSome(t) \/ Unwrap(t) \notin W THEN st
        ELSE FocusChanged(WindowUnmap(st, Unwrap(t)))

\* WinMan::on_unmap_notify and Window::on_unmap_notify for any notification:
\* event is the window the notification was reported on, window the one
\* that was unmapped
OnUnmapNotifyEvent(st, event, window) ==
    IF ~Running(st) THEN st ELSE
    LET t == WinManWindowMut(st, event)
    IN  IF ~IsSome(t) THEN st
        ELSE IF Unwrap(t) \notin W THEN FocusChanged(st)
        ELSE IF ~WindowContains(Unwrap(t), window) THEN FocusChanged(st)
        ELSE IF window # Unwrap(t) THEN Panic(st)
        ELSE FocusChanged(WindowUnmap(st, Unwrap(t)))

\* WinMan::on_destroy_notify
OnDestroyNotify(st, w) ==
    IF ~Running(st) THEN st ELSE
    LET c == ContainerOf(st, w)
    IN  IF ~IsSome(c) THEN st
        ELSE FocusChanged(DropWindow(ForgetWindow(st, Unwrap(c), w), w))

\* the first part of WinMan::on_button_press: focus the window clicked
ClickFocus(st, child) ==
    LET t == WinManWindowMut(st, child)
    IN  IF IsSome(t) THEN FocusChanged(FocusWindow(st, Unwrap(t))) ELSE st

Max(a, b) == IF a >= b THEN a ELSE b

\* the geometry of the bar of a screen on a monitor (update_background)
BarGeometry(info) ==
    [x |-> info.x, y |-> info.y, width |-> info.width, height |-> BAR_HEIGHT,
     border_width |-> 0]

\* get_geometry of the frame of the client window, or of the bar, named t
FrameGeometry(st, t, info) == IF t \in W THEN st.geom[t] ELSE BarGeometry(info)

\* Window::frame of the window named t
FrameOf(t) == IF t \in W THEN Frame(t) ELSE t

\* the branch of WinMan::on_button_press taken with Alt held, after the
\* window clicked is focused; the pointer is at (x, y)
FloatAndDrag(st, child, x, y) ==
    LET owner == ContainerOf(st, child)
    IN  IF ~Running(st) \/ ~IsSome(owner) THEN st
        ELSE IF child = Bg(Unwrap(owner)) THEN st
        ELSE LET t == Unwrap(ScreenWindowMut(st, Unwrap(owner), child))
                 mon == st.scr[Unwrap(owner)].monitor
             IN  IF ~IsSome(mon) THEN st
                 ELSE LET info == MonitorInfo(Unwrap(mon))
                          geo == FrameGeometry(st, t, info)
                          rect == [x |-> geo.x - info.x, y |-> geo.y - info.y,
                                   width |-> geo.width, height |-> geo.height]
                          s1 == IF t \in W THEN WindowFloat(st, t, rect) ELSE st
                          s2 == [s1 EXCEPT !.drag = Some(
                                    [wid |-> FrameOf(t), start_x |-> x, start_y |-> y,
                                     window_x |-> geo.x, window_y |-> geo.y,
                                     window_w |-> geo.width, window_h |-> geo.height])]
                      IN  RefreshAll(s2)

\* WinMan::on_button_press with Alt held
OnButtonPressAlt(st, child, x, y) ==
    IF ~Running(st) THEN st ELSE FloatAndDrag(ClickFocus(st, child), child, x, y)

\* WinMan::on_motion_notify with Alt held and the left or the right button
\* down; the pointer is at (x, y)
OnMotionNotify(st, button, x, y) ==
    IF ~Running(st) THEN st ELSE
    IF ~IsSome(st.drag) THEN st ELSE
    LET d == Unwrap(st.drag)
        dx == x - d.start_x
        dy == y - d.start_y
        t == WinManWindowMut(st, d.wid)
    IN  IF ~IsSome(t) \/ Unwrap(t) \notin W THEN st
        ELSE IF button = "left"
        THEN WindowConfigure(st, Unwrap(t),
                 [x |-> d.window_x + dx, y |-> d.window_y + dy])
        ELSE WindowConfigure(st, Unwrap(t),
                 [width |-> Max(d.window_w + dx, 1),
                  height |-> Max(d.window_h + dy, 1)])

\* WinMan::on_button_release
OnButtonRelease(st) ==
    IF ~Running(st) THEN st ELSE
    IF ~IsSome(st.drag) THEN st ELSE
    LET d == Unwrap(st.drag)
        s1 == [st EXCEPT !.drag = None]
        owner == ContainerOf(s1, d.wid)
    IN  IF ~IsSome(owner) THEN Fail(s1)
        ELSE LET mon == s1.scr[Unwrap(owner)].monitor
                 t == Unwrap(ScreenWindowMut(s1, Unwrap(owner), d.wid))
             IN  IF ~IsSome(mon) THEN s1
                 ELSE IF t \notin W THEN RefreshAll(s1)
                 ELSE LET info == MonitorInfo(Unwrap(mon))
                          geo == s1.geom[t]
                      IN  RefreshAll(SetFloatGeometry(s1, t,
                              [x |-> geo.x - info.x, y |-> geo.y - info.y,
                               width |-> geo.width, height |-> geo.height]))

\* ------------------------------------------------------ specification ---
\* Screen::new
NewScreen ==
    [monitor |-> None, wins |-> <<>>, background |-> "Unmapped",
     current_layout |-> 0, ratio |-> RATIO_INIT, border_visible |-> FALSE]

\* WinMan::new before init
Blank ==
    [scr |-> [s \in ScreenIds |-> NewScreen],
     win |-> [w \in W |-> NewWindow("Created")],
     focus |-> NONE,
     geom |-> [w \in W |-> ClientGeo],
     drag |-> None,
     monitor_num |-> 0,
     log |-> <<>>,
     status |-> "running",
     observe |-> {},
     exit |-> None]

\* WinMan::init on a display of n monitors with no window yet
WinManInit(n) == RefreshAll(FocusAny(SetupMonitor(Blank, n), 0))

\* the state after WinMan::new on a display of up to mons monitors, keeping
\* the records named in obs; call is the strategy under test, if any
InitWith(obs, mons, call) ==
    \E n \in 1..mons :
        /\ scr = WinManInit(n).scr
        /\ win = WinManInit(n).win
        /\ focus = WinManInit(n).focus
        /\ geom = WinManInit(n).geom
        /\ drag = None
        /\ monitor_num = n
        /\ log = <<>>
        /\ status = "running"
        /\ observe = obs
        /\ lay = call
        /\ exit = None
        /\ bar = BarHandleNew

Init == InitWith({"log"}, CoreMon, None)

\* the state a handler starts from: the log holds one handler's requests
Begin == [St EXCEPT !.log = <<>>]

\* the windows a pointer can be over: what is shown on an attached screen
Clickable ==
    {Frame(w) : w \in {v \in W : \E s \in ScreenIds :
                        /\ v \in Range(scr[s].wins)
                        /\ IsSome(scr[s].monitor)
                        /\ IsViewable(St, v)}}
    \cup {Bg(s) : s \in {t \in ScreenIds : IsSome(scr[t].monitor)}}
    \cup {Bar(s) : s \in {t \in ScreenIds : IsSome(scr[t].monitor)}}

Tracked(w) == \E s \in ScreenIds : w \in Range(scr[s].wins)

MapRequestRoot(w) == status = "running" /\ Apply(OnMapRequestRoot(Begin, w))

\* the server redirects the map of a client window that is unmapped
MapRequestFrame(w) ==
    /\ status = "running"
    /\ Tracked(w) /\ win[w].state = "Unmapped"
    /\ Apply(OnMapRequestFrame(Begin, w))

UnmapNotify(w) ==
    /\ status = "running"
    /\ Tracked(w) /\ win[w].state = "Mapped"
    /\ Apply(OnUnmapNotify(Begin, w))

DestroyNotify(w) == status = "running" /\ Apply(OnDestroyNotify(Begin, w))

ButtonPress(child) ==
    /\ status = "running"
    /\ child \in Clickable
    /\ Apply(ClickFocus(Begin, child))

FocusIn == status = "running" /\ Apply(OnFocusIn(Begin))

RandrNotify(n) == status = "running" /\ Apply(OnRandrNotify(Begin, n))

Close == status = "running" /\ Apply(CommandClose(Begin))

Sink == status = "running" /\ Apply(CommandSink(Begin))

FocusNextCmd == status = "running" /\ Apply(CommandFocusNext(Begin))

FocusNextMonitor == status = "running" /\ Apply(CommandFocusMonitor(Begin, 1))

FocusPrevMonitor ==
    status = "running" /\ Apply(CommandFocusMonitor(Begin, monitor_num - 1))

NextLayoutCmd == status = "running" /\ Apply(CommandNextLayout(Begin))

ShowBorder == status = "running" /\ Apply(CommandBorder(Begin, TRUE))

HideBorder == status = "running" /\ Apply(CommandBorder(Begin, FALSE))

\* Command::Screen(id); the log starts with the command
ScreenCmd(id) ==
    status = "running" /\ Apply(SwitchScreen(Emit(Begin, "Screen", id), id))

MoveToScreen(id) == status = "running" /\ Apply(MoveWindowToScreen(Begin, id))

\* The focus, ownership and visibility machine on a display of CoreMon
\* monitors.  The layout ring, the border flag and floating only decide
\* geometry, which these handlers never read.
Next ==
    \/ \E w \in W : MapRequestRoot(w)
    \/ \E w \in W : MapRequestFrame(w)
    \/ \E w \in W : UnmapNotify(w)
    \/ \E w \in W : DestroyNotify(w)
    \/ \E c \in Clickable : ButtonPress(c)
    \/ FocusIn
    \/ \E n \in 1..CoreMon : RandrNotify(n)
    \/ Close
    \/ FocusNextCmd
    \/ FocusNextMonitor
    \/ FocusPrevMonitor
    \/ \E id \in ScreenIds : ScreenCmd(id)
    \/ \E id \in ScreenIds : MoveToScreen(id)

Spec == Init /\ [][Next]_vars

\* Geometry: tiling, floating and dragging on one monitor, with GeomWin
\* client windows.  The frame geometry is kept, the log is not.  A drag
\* starts with the pointer at the origin.
InitGeom == InitWith({"geom"}, CoreMon, None)

PointerPos == {0, DragStep}

\* the frames a drag may start on: the bounds keep the geometry finite
Draggable ==
    {c \in Clickable : \A w \in W : c = Frame(w) =>
        /\ geom[w].height + FRAME_STRIP <= MaxFloatH
        /\ geom[w].x <= MaxFloatX /\ geom[w].y <= MaxFloatX
        /\ geom[w].width <= MonW}

ButtonPressAlt(child, x, y) ==
    status = "running" /\ Apply(OnButtonPressAlt(Begin, child, x, y))

MotionNotify(button, x, y) ==
    status = "running" /\ Apply(OnMotionNotify(Begin, button, x, y))

ButtonRelease == status = "running" /\ Apply(OnButtonRelease(Begin))

NextGeom ==
    \/ \E w \in 1..GeomWin : MapRequestRoot(w)
    \/ \E c \in Draggable : ButtonPressAlt(c, 0, 0)
    \/ \E b \in {"left", "right"} : \E p \in PointerPos : MotionNotify(b, p, p)
    \/ ButtonRelease
    \/ Sink

SpecGeom == InitGeom /\ [][NextGeom]_vars

\* Dragging while windows go: the geometry machine with the destruction of
\* client windows, which may happen between a press and its release.
NextDrag ==
    \/ \E w \in 1..GeomWin : MapRequestRoot(w)
    \/ \E w \in 1..GeomWin : DestroyNotify(w)
    \/ \E c \in Draggable : ButtonPressAlt(c, 0, 0)
    \/ \E b \in {"left", "right"} : \E p \in PointerPos : MotionNotify(b, p, p)
    \/ ButtonRelease

SpecDrag == InitGeom /\ [][NextDrag]_vars

\* Monitor topologies: the reply of randr_get_monitors lists the active
\* monitors, and it is empty when every output has been switched off.
NextMonitors ==
    \/ \E n \in 0..MaxMon : RandrNotify(n)
    \/ \E w \in 1..SwitchWin : MapRequestRoot(w)
    \/ \E id \in ScreenIds : ScreenCmd(id)
    \/ FocusNextMonitor
    \/ FocusIn

SpecMonitors == InitWith({}, MaxMon, None) /\ [][NextMonitors]_vars

\* Resizing: a drag with the secondary button may start with the pointer at
\* either position and move it to the other, so a frame may shrink as well
\* as grow.  One client window is enough.
NextResize ==
    \/ MapRequestRoot(1)
    \/ \E c \in Draggable : \E p \in PointerPos : ButtonPressAlt(c, p, p)
    \/ \E p \in PointerPos : MotionNotify("right", p, p)
    \/ ButtonRelease

SpecResize == InitGeom /\ [][NextResize]_vars

\* Where a new window is put.  The client that owns the focused window may
\* destroy or unmap it at any time; the server then reverts the focus to
\* PointerRoot before the window manager has seen any event of it.
InitPlace == InitWith({}, MaxMon, None)

FocusReverts ==
    /\ status = "running"
    /\ focus \in W
    /\ Apply([Begin EXCEPT !.focus = NONE])

NextPlace ==
    \/ \E w \in 1..SwitchWin : MapRequestRoot(w)
    \/ \E w \in 1..SwitchWin : DestroyNotify(w)
    \/ \E n \in 1..MaxMon : RandrNotify(n)
    \/ \E id \in ScreenIds : ScreenCmd(id)
    \/ FocusReverts
    \/ FocusIn

SpecPlace == InitPlace /\ [][NextPlace]_vars

\* The focus machine with the server's part in it.  A window that holds the
\* focus is viewable: when its client unmaps or destroys it the server
\* reverts the focus to PointerRoot at once, and the notification reaches
\* the window manager with the focus already gone.  The FocusIn of a revert
\* may be handled at any later time.  SwitchWin client windows.
InitFocus == InitWith({"highlight", "log"}, CoreMon, None)

\* a server that leaves the focus on a window that is no longer viewable
RevertedNever(w) == Begin

\* the focus as the server leaves it when the client takes window w away
Reverted(w) == [Begin EXCEPT !.focus = IF @ = w THEN NONE ELSE @]

ClientUnmaps(w) ==
    /\ status = "running"
    /\ Tracked(w) /\ win[w].state = "Mapped"
    /\ Apply(OnUnmapNotify(Reverted(w), w))

ClientDestroys(w) ==
    /\ status = "running"
    /\ Tracked(w)
    /\ Apply(OnDestroyNotify(Reverted(w), w))

NextFocus ==
    \/ \E w \in 1..SwitchWin : MapRequestRoot(w)
    \/ \E w \in 1..SwitchWin : MapRequestFrame(w)
    \/ \E w \in 1..SwitchWin : ClientUnmaps(w)
    \/ \E w \in 1..SwitchWin : ClientDestroys(w)
    \/ \E c \in Clickable : ButtonPress(c)
    \/ FocusIn
    \/ \E n \in 1..CoreMon : RandrNotify(n)
    \/ Close
    \/ FocusNextCmd
    \/ FocusNextMonitor
    \/ FocusPrevMonitor
    \/ \E id \in ScreenIds : ScreenCmd(id)
    \/ \E id \in ScreenIds : MoveToScreen(id)

SpecFocus == InitFocus /\ [][NextFocus]_vars

\* Unmap notifications.  The frame selects the events of its children only,
\* so the unmap of a frame, which only the window manager does, is reported
\* on the root window; the unmap of a client window by its client is
\* reported on its frame.  A notification may be handled long after the
\* request that caused it.
InitUnmap == InitWith({"log"}, CoreMon, None)

FrameUnmapNotify(w) ==
    /\ status = "running"
    /\ Tracked(w)
    /\ Apply(OnUnmapNotifyEvent(Emit(Begin, "UnmapNotify", Frame(w)), Root, Frame(w)))

NextUnmap ==
    \/ \E w \in 1..SwitchWin : MapRequestRoot(w)
    \/ \E w \in 1..SwitchWin : MapRequestFrame(w)
    \/ \E w \in 1..SwitchWin : ClientUnmaps(w)
    \/ \E w \in 1..SwitchWin : FrameUnmapNotify(w)
    \/ \E n \in 1..CoreMon : RandrNotify(n)
    \/ \E id \in ScreenIds : ScreenCmd(id)
    \/ \E id \in ScreenIds : MoveToScreen(id)

SpecUnmap == InitUnmap /\ [][NextUnmap]_vars

\* Tiling on one monitor: windows come, go and are unmapped in any order,
\* and the layout and the border flag change.
InitTile == InitWith({"geom", "log"}, CoreMon, None)

NextTile ==
    \/ \E w \in W : MapRequestRoot(w)
    \/ \E w \in W : UnmapNotify(w)
    \/ \E w \in W : MapRequestFrame(w)
    \/ \E w \in W : DestroyNotify(w)
    \/ Close
    \/ FocusNextCmd
    \/ NextLayoutCmd
    \/ ShowBorder
    \/ HideBorder

SpecTile == InitTile /\ [][NextTile]_vars

\* The layout strategies alone.  A strategy is created with a slice of n
\* windows and a border flag; its ratio changes by process_command, and
\* layout records the configure request of each window of the slice.
Strategies ==
    {"horizontal", "horizontal-with-border", "vertical", "vertical-with-border"}

\* Horizontal::new, Vertical::new and their WithBorder wrappers, with the
\* arguments the strategy will be called with
NewStrategy(name, n, border_visible) ==
    [name |-> name, ratio |-> RATIO_INIT, mon |-> MonitorInfo(0), n |-> n,
     border_visible |-> border_visible, confs |-> <<>>]

InitLayout ==
    \E name \in Strategies : \E n \in 1..MaxN : \E bv \in BOOLEAN :
        InitWith({}, CoreMon, Some(NewStrategy(name, n, bv)))

\* Layout::process_command
ProcessCommand(cmd) ==
    /\ IsSome(lay)
    /\ lay' = Some([Unwrap(lay) EXCEPT
                       !.ratio = StrategyProcessCommand(Unwrap(lay).name, @, cmd),
                       !.confs = <<>>])
    /\ UNCHANGED <<scr, win, focus, geom, drag, monitor_num, log, status, observe,
                   exit, bar>>

\* Layout::layout
LayoutCall ==
    /\ IsSome(lay)
    /\ lay' = Some([Unwrap(lay) EXCEPT !.confs =
                       StrategyLayout(Unwrap(lay).name, Unwrap(lay).mon,
                                      Unwrap(lay).n, Unwrap(lay).ratio,
                                      Unwrap(lay).border_visible)])
    /\ UNCHANGED <<scr, win, focus, geom, drag, monitor_num, log, status, observe,
                   exit, bar>>

NextOfLayout ==
    \/ \E cmd \in {"+", "-"} : ProcessCommand(cmd)
    \/ LayoutCall

SpecLayout == InitLayout /\ [][NextOfLayout]_vars

\* The ratio of a strategy under every command string: "+", "-" and one
\* that no strategy knows.
Commands == {"+", "-", "="}

NextRatio ==
    \/ \E cmd \in Commands : ProcessCommand(cmd)
    \/ LayoutCall

SpecRatio == InitLayout /\ [][NextRatio]_vars

\* Screen switching on a display of up to MaxMon monitors, with SwitchWin
\* client windows.
InitSwitch == InitWith({"log"}, MaxMon, None)

NextSwitch ==
    \/ \E w \in 1..SwitchWin : MapRequestRoot(w)
    \/ \E w \in 1..SwitchWin : UnmapNotify(w)
    \/ \E w \in 1..SwitchWin : DestroyNotify(w)
    \/ \E c \in Clickable : ButtonPress(c)
    \/ \E n \in 1..MaxMon : RandrNotify(n)
    \/ FocusNextCmd
    \/ FocusNextMonitor
    \/ FocusPrevMonitor
    \/ \E id \in ScreenIds : ScreenCmd(id)
    \/ \E id \in ScreenIds : MoveToScreen(id)

SpecSwitch == InitSwitch /\ [][NextSwitch]_vars

\* The event loop and main.  Handlers run until one returns Err or the
\* connection fails; start then returns the error and main reports it.
InitLoop == InitWith({"log"}, CoreMon, None)

MapRequestGone(w) == status = "running" /\ Apply(OnMapRequestRootGone(Begin, w))

KeyPress(cmd) == status = "running" /\ Apply(OnKeyPress(Begin, cmd))

ConnectionLost == status = "running" /\ Apply(WaitForEventFails(Begin))

NextLoop ==
    \/ \E w \in 1..SwitchWin : MapRequestRoot(w)
    \/ \E w \in 1..SwitchWin : MapRequestGone(w)
    \/ \E w \in 1..SwitchWin : UnmapNotify(w)
    \/ \E w \in 1..SwitchWin : DestroyNotify(w)
    \/ \E c \in Clickable : ButtonPress(c)
    \/ \E id \in ScreenIds : ScreenCmd(id)
    \/ \E cmd \in {"Quit", "Restart"} : KeyPress(cmd)
    \/ ConnectionLost

SpecLoop == InitLoop /\ [][NextLoop]_vars

\* The bar: a BarHandle and the threads behind it.  The caller makes up to
\* MaxCalls calls and may drop the handle; the X11 requests of the Bar may
\* fail.  The timer and the X11 thread leave the redirector room in the
\* model's bounded event channel.
BarStep(b) ==
    /\ bar' = b
    /\ UNCHANGED <<scr, win, focus, geom, drag, monitor_num, log, status,
                   observe, lay, exit>>

Call(req) ==
    bar.caller = "idle" /\ bar.sent < MaxCalls /\ BarStep(HandleSend(bar, req))

Receive == bar.caller = "waiting" /\ bar.respchan # <<>> /\ BarStep(HandleRecv(bar))

ReceiveDisconnected ==
    /\ bar.caller = "waiting" /\ bar.respchan = <<>> /\ bar.main = "stopped"
    /\ BarStep(HandleRecvDisconnected(bar))

DropHandle == bar.caller = "idle" /\ BarStep([bar EXCEPT !.caller = "dropped"])

Redirect ==
    /\ bar.redirector = "running" /\ bar.reqchan # <<>>
    /\ Len(bar.queue) < MaxQueue
    /\ BarStep(RedirectRequest(bar))

RedirectHangup ==
    /\ bar.redirector = "running" /\ bar.reqchan = <<>>
    /\ bar.caller \in {"dropped", "failed", "panicked"}
    /\ Len(bar.queue) < MaxQueue
    /\ BarStep(RedirectDisconnected(bar))

TimerTick ==
    /\ bar.timer = "running" /\ Len(bar.queue) < MaxQueue - 1
    /\ BarStep(Produce(bar, "timer", "Alarm"))

X11Event ==
    /\ bar.x11 = "running" /\ Len(bar.queue) < MaxQueue - 1
    /\ BarStep(Produce(bar, "x11", "X11"))

MainStart ==
    /\ bar.main = "starting"
    /\ \E ok \in BOOLEAN :
           BarStep(IF ok THEN [bar EXCEPT !.main = "running"] ELSE MainStops(bar))

MainStep ==
    /\ bar.main = "running" /\ bar.queue # <<>>
    /\ \E ok \in BOOLEAN : BarStep(MainTurn(bar, ok))

NextBar ==
    \/ \E req \in Requests : Call(req)
    \/ Receive
    \/ ReceiveDisconnected
    \/ DropHandle
    \/ Redirect
    \/ RedirectHangup
    \/ TimerTick
    \/ X11Event
    \/ MainStart
    \/ MainStep

InitBar == InitWith({}, CoreMon, None)

SpecBar == InitBar /\ [][NextBar]_vars

\* the threads are scheduled fairly, and a blocked recv returns when it can
SpecBarFair ==
    /\ SpecBar
    /\ WF_vars(Receive) /\ WF_vars(ReceiveDisconnected)
    /\ WF_vars(Redirect) /\ WF_vars(MainStart) /\ WF_vars(MainStep)

\* --------------------------------------------------------- properties ---
\* the operations of the last handler, as the log names them
LastOps == {log[i].op : i \in 1..Len(log)}

\* the screens that contain the window holding the input focus
FocusOwners == {s \in ScreenIds : ScreenContains(St, s, focus)}

Backgrounds == {Bg(s) : s \in ScreenIds}

\* C1: after a handler that ran add_window or forget_window, the
\* input focus is on a client window or on a background, and exactly one
\* screen contains that window.
C1_FocusOnClientOrBackground ==
    (LastOps \cap {"insert", "remove"} # {})
        => /\ focus \in W \cup Backgrounds
           /\ Cardinality(FocusOwners) = 1

\* the positions of the log of the next state that hold request op on id
LogPos(op, id) == {i \in 1..Len(log') : log'[i] = [op |-> op, id |-> id]}

\* C2: when Close is issued with the focus on the middle one of the three
\* mapped windows w1 < w2 < w3 of a screen, the focus is set to w3 before w2
\* is removed, and afterwards w2 is in no screen and the screen lays out
\* exactly w1 and w3.
C2_CloseFocusesSuccessorFirst ==
    [][\A s \in ScreenIds :
        (/\ Close
         /\ Len(scr[s].wins) = 3
         /\ \A i \in 1..3 : win[scr[s].wins[i]].state = "Mapped"
         /\ \A i \in 1..3 : ~IsFloating(St, scr[s].wins[i])
         /\ focus = scr[s].wins[2])
        => /\ focus' = scr[s].wins[3]
           /\ \E i \in LogPos("set_input_focus", scr[s].wins[3]) :
                  \A j \in LogPos("remove", scr[s].wins[2]) : i < j
           /\ \A t \in ScreenIds : ~ScreenContains(St', t, scr[s].wins[2])
           /\ TiledWindows(St', s) = <<scr[s].wins[1], scr[s].wins[3]>>]_vars

\* C3: map() on a window whose state is Mapped leaves it Mapped and issues
\* no map_window request: when a handler calls map() on a Window that was
\* Mapped when the handler started, the Window is Mapped afterwards and the
\* handler has sent no map_window for its client window.
C3_MapOnMappedIssuesNoRequest ==
    [][\A w \in W :
        (Tracked(w) /\ win[w].state = "Mapped" /\ LogPos("map", w) # {})
        => /\ win'[w].state = "Mapped"
           /\ LogPos("map_window", w) = {}]_vars

\* the screens that hold monitor m in state st
HoldersOf(st, m) == {u \in ScreenIds : st.scr[u].monitor = Some(m)}

\* C8: when Screen(t) is issued while the focused screen s holds monitor A and
\* screen t holds none, afterwards s is parked (no monitor, none of its
\* windows viewable), t holds A, and every monitor is held by as many screens
\* as before.
C8_SwitchParksFocusedScreen ==
    [][\A s, t \in ScreenIds :
        (/\ LogPos("Screen", t) # {}
         /\ FocusedScreen(St) = Some(s)
         /\ IsSome(scr[s].monitor)
         /\ ~IsSome(scr[t].monitor))
        => /\ scr'[s].monitor = None
           /\ \A w \in Range(scr'[s].wins) : ~IsViewable(St', w)
           /\ scr'[t].monitor = scr[s].monitor
           /\ \A m \in 0..(MaxMon - 1) :
                  Cardinality(HoldersOf(St', m)) = Cardinality(HoldersOf(St, m))]_vars

\* C9: when a handler attaches a parked screen to a monitor, every window of
\* the screen whose state was Mapped while it was parked is viewable
\* afterwards, and no window of the screen changes its lifecycle state.
C9_AttachRestoresVisibility ==
    [][\A s \in ScreenIds :
        (~IsSome(scr[s].monitor) /\ IsSome(scr'[s].monitor))
        => \A w \in Range(scr[s].wins) :
               /\ win'[w].state = win[w].state
               /\ win[w].state = "Mapped" => IsViewable(St', w)]_vars

\* C10: after Screen(t), whether t was parked or held a monitor, the input
\* focus is on the first mapped-or-hidden window of screen t, or on the
\* background of t when t has no such window.
C10_SwitchFocusesTarget ==
    [][\A t \in ScreenIds :
        LogPos("Screen", t) # {} /\ FocusedScreen(St) # Some(t)
        => LET cand == SelectSeq(scr'[t].wins,
                           LAMBDA w : win'[w].state \in {"Mapped", "Hidden"})
           IN  focus' = IF cand # <<>> THEN Head(cand) ELSE Bg(t)]_vars

\* C4: a floating window that is sunk and floated again, with no geometry
\* change in between, gets its floating rectangle back: the rectangle kept in
\* the Window and the one refresh_layout applies to the frame are those it
\* had before the sink.
C4_FloatSinkFloatRestoresRectangle ==
    \A w \in W :
        (/\ status = "running" /\ drag = None
         /\ focus = w /\ Frame(w) \in Clickable
         /\ IsFloating(St, w))
        => LET sunk == CommandSink(Begin)
               again == OnButtonPressAlt(sunk, Frame(w), 0, 0)
           IN  /\ again.win[w].float_geometry = win[w].float_geometry
               /\ again.geom[w] = geom[w]

\* the x, y, width and height of a frame geometry
RectOf(geo) ==
    [x |-> geo.x, y |-> geo.y, width |-> geo.width, height |-> geo.height]

\* C11: a mapped window floated with a rectangle is configured by
\* refresh_layout at the monitor origin plus that rectangle; NextLayout then
\* changes neither the rectangle the Window keeps nor the geometry of its
\* frame, and the floating window is not among the windows handed to the
\* tiling strategy.
C11_FloatingRectangleKept ==
    \A w \in W :
        (status = "running" /\ drag = None /\ Frame(w) \in Clickable)
        => LET s == Unwrap(ContainerOf(St, Frame(w)))
               info == MonitorInfo(Unwrap(scr[s].monitor))
               rect == [x |-> geom[w].x - info.x, y |-> geom[w].y - info.y,
                        width |-> geom[w].width, height |-> geom[w].height]
               floated == OnButtonPressAlt(Begin, Frame(w), 0, 0)
               relaid == CommandNextLayout(floated)
           IN  Running(floated)
               => /\ RectOf(floated.geom[w]) = FloatingRect(info, rect)
                  /\ relaid.win[w].float_geometry = floated.win[w].float_geometry
                  /\ relaid.geom[w] = floated.geom[w]
                  /\ w \notin Range(TiledWindows(floated, s))
                  /\ w \notin Range(TiledWindows(relaid, s))

\* the monitors a display can report
MonitorIds == 0..(MaxMon - 1)

\* C12: attach(M) on a screen with no windows and no monitor succeeds; the
\* screen then holds M and its background is mapped, and refresh_layout on
\* it returns without error, sends no request for a client window and leaves
\* every Window and every frame geometry as it was.
C12_AttachEmptyScreen ==
    \A s \in ScreenIds : \A m \in MonitorIds :
        (status = "running" /\ scr[s].monitor = None /\ scr[s].wins = <<>>)
        => LET start == [Begin EXCEPT !.observe = {"geom", "log"}]
               attached == Attach(start, s, m)
               laid == RefreshLayout(attached, s)
           IN  /\ Running(attached)
               /\ attached.scr[s].monitor = Some(m)
               /\ attached.scr[s].background = "Mapped"
               /\ Running(laid)
               /\ laid.log = <<>>
               /\ laid.geom = geom
               /\ laid.win = win

\* Screen(t) has detached the focused screen and attached screen t, which
\* has no windows, to its monitor
C12_Witness ==
    \E t \in ScreenIds :
        /\ status = "running"
        /\ Len(log) > 1 /\ log[1] = [op |-> "Screen", id |-> t]
        /\ log[2] = [op |-> "set_input_focus", id |-> Root]
        /\ scr[t].wins = <<>>
        /\ IsSome(scr[t].monitor)
        /\ scr[t].background = "Mapped"

\* C13: no window of a screen that holds no monitor is viewable.
C13_ParkedWindowsNotViewable ==
    \A s \in ScreenIds : \A w \in Range(scr[s].wins) :
        scr[s].monitor = None => ~IsViewable(St, w)

\* the screens that contain window id wid
ContainersOf(wid) == {s \in ScreenIds : ScreenContains(St, s, wid)}

\* C14: while the window manager runs, a client window that a Window wraps
\* is contained, under its inner id and under its frame id, by exactly one
\* screen, whose map holds it once; a client window that no Window wraps is
\* contained by no screen.
C14_OneOwner ==
    status = "running"
    => \A w \in W :
        IF win[w].state # "Created"
        THEN /\ Cardinality(ContainersOf(w)) = 1
             /\ ContainersOf(Frame(w)) = ContainersOf(w)
             /\ \A s \in ContainersOf(w) :
                    Len(SelectSeq(scr[s].wins, LAMBDA v : v = w)) = 1
        ELSE ContainersOf(w) = {} /\ ContainersOf(Frame(w)) = {}

\* MoveToScreen has removed a client window from one screen and inserted
\* it into another
C14_Witness ==
    \E w \in W : \E i, j \in 1..Len(log) :
        /\ status = "running"
        /\ i < j
        /\ log[i] = [op |-> "remove", id |-> w]
        /\ log[j] = [op |-> "insert", id |-> w]
        /\ Tracked(w)

Bars == {Bar(s) : s \in ScreenIds}

\* the window map of every screen in state st
WindowSets(st) == [s \in ScreenIds |-> st.scr[s].wins]

\* C15: with the input focus on a background or on a bar, MoveToScreen to
\* any screen, Close and Sink each return without failing, and leave the
\* window map of every screen and every Window as they were.
C15_BackgroundAndBarAreNotMoved ==
    (status = "running" /\ focus \in Backgrounds \cup Bars)
    => /\ \A id \in ScreenIds :
              LET moved == MoveWindowToScreen(Begin, id)
              IN  /\ Running(moved)
                  /\ WindowSets(moved) = WindowSets(St)
                  /\ moved.win = win
       /\ LET closed == CommandClose(Begin)
          IN  /\ Running(closed)
              /\ WindowSets(closed) = WindowSets(St)
              /\ closed.win = win
       /\ LET sunk == CommandSink(Begin)
          IN  /\ Running(sunk)
              /\ WindowSets(sunk) = WindowSets(St)
              /\ sunk.win = win

\* the client windows in the window maps of state st
Managed(st) == UNION {Range(st.scr[s].wins) : s \in ScreenIds}

C17_WindowErrorsAbsorbed ==
    /\ exit # None => Unwrap(exit).error # "Window"
    /\ exit # None => status # "running"

\* C18: a key bound to Quit or Restart ends the event loop with the error
\* Quit or Restart and leaves the screens, the Windows and the drag as they
\* were; no handler runs afterwards; main reports the error as information,
\* not as an error, with an exit status that a failure does not have.
C18_QuitAndRestartEndCleanly ==
    [][/\ exit = None
       /\ \A e \in {"Quit", "Restart"} :
            exit' = Some(Report(e))
            => /\ scr' = scr /\ win' = win /\ drag' = drag
               /\ status' # "running"
               /\ Report(e).level = "info"
               /\ Report(e).code # Report("Window").code]_vars

\* the requests sent and not yet answered, and the responses not yet taken
Outstanding ==
    Len(bar.reqchan) + Len(SelectSeq(bar.queue, LAMBDA ev : ev.kind = "Request"))
    + Len(bar.respchan)

\* C19: the BarHandle and its bar work in lockstep.  At most one request or
\* response is in flight at any time; an operation that has returned has
\* sent one request and taken one response, of the kind it accepts; the bar
\* sends one response for a request it has served and none for an Alarm or
\* an X11 event.
C19_OneRequestOneResponse ==
    /\ [](/\ Outstanding <= 1
          /\ bar.answered <= bar.sent /\ bar.sent <= bar.answered + 1
          /\ bar.received <= bar.answered /\ bar.answered <= bar.received + 1
          /\ bar.caller = "idle" => (bar.sent = bar.received /\ Outstanding = 0)
          /\ bar.caller # "panicked")
    /\ [][(bar'.respchan # bar.respchan /\ Len(bar'.respchan) >= Len(bar.respchan))
          => /\ bar.queue # <<>> /\ Head(bar.queue).kind = "Request"
             /\ bar'.respchan =
                    Append(bar.respchan, ResponseTo(Head(bar.queue).req))
             /\ bar'.answered = bar.answered + 1]_vars

\* two operations have returned and the bar has an Alarm to serve
C19_Witness ==
    /\ bar.caller = "idle" /\ bar.received >= 2 /\ bar.main = "running"
    /\ \E i \in 1..Len(bar.queue) : bar.queue[i].kind = "Alarm"

\* C20: under fair scheduling a caller that waits for a response gets it, or
\* gets the disconnect error of the closed channel; it never waits forever.
C20_RequestsAreAnswered ==
    (bar.caller = "waiting") ~> (bar.caller \in {"idle", "failed"})

\* a caller that waited has seen the channel closed by the end of bar-main
C20_Witness ==
    /\ bar.caller = "failed" /\ bar.sent > bar.answered /\ bar.main = "stopped"

\* C21: when the window a drag was started on has been destroyed and
\* forgotten, a later MotionNotify and a later ButtonRelease return Ok and
\* change nothing, except that the release clears drag.
C21_VanishedDragTargetIsNoOp ==
    (status = "running" /\ IsSome(drag)
        /\ ~IsSome(ContainerOf(St, Unwrap(drag).wid))) =>
    /\ \A b \in {"left", "right"} : \A p \in PointerPos :
           OnMotionNotify(St, b, p, p) = St
    /\ OnButtonRelease(St) = [St EXCEPT !.drag = None]

\* C22: a monitor topology change that reports n monitors returns with
\* exactly the screens 0..n-1 attached, screen i holding monitor i, and every
\* other screen parked, whichever screens held monitors before; the window
\* set of no screen changes and the pool keeps all its screens.
C22_TopologyChangeReattachesInOrder ==
    status = "running" =>
    \A n \in 1..MaxMon :
        LET r == OnRandrNotify(St, n)
        IN  /\ Running(r)
            /\ r.monitor_num = n
            /\ DOMAIN r.scr = ScreenIds
            /\ \A s \in ScreenIds :
                   /\ r.scr[s].monitor = IF s < n THEN Some(s) ELSE None
                   /\ r.scr[s].wins = scr[s].wins

C24_RatioStaysWithinBounds ==
    (IsSome(lay) /\ Unwrap(lay).name \in {"horizontal", "horizontal-with-border"})
    => LET ratio == Unwrap(lay).ratio
           after(cmd) == StrategyProcessCommand(Unwrap(lay).name, ratio, cmd)
       IN  /\ ratio \in 5..95
           /\ after("+") = IF ratio = 95 THEN 95 ELSE ratio + 5
           /\ after("-") = IF ratio = 5 THEN 5 ELSE ratio - 5
           /\ \A cmd \in Commands \ {"+", "-"} : after(cmd) = ratio

\* "+" has brought the ratio of a horizontal layout to its upper bound
C24_Witness ==
    /\ IsSome(lay)
    /\ Unwrap(lay).name = "horizontal"
    /\ Unwrap(lay).ratio = RATIO_MAX
    /\ Unwrap(lay).confs = <<>>

\* the slices of the current layout of screen s for its tiled windows: the
\* rectangles the layout hands out when no border is drawn
Slices(st, s) ==
    LET name == LayoutRing[st.scr[s].current_layout + 1]
        area == LayoutArea(name, MonitorInfo(Unwrap(st.scr[s].monitor)))
        n == Len(TiledWindows(st, s))
    IN  CASE name \in {"horizontal", "horizontal-with-border"} ->
                 HorizontalLayout(area, n, st.scr[s].ratio, FALSE)
          [] name \in {"vertical", "vertical-with-border"} ->
                 VerticalLayout(area, n, FALSE)
          [] OTHER -> FullScreenLayout(area, n)

\* C25: ShowBorder sets the border flag of every screen and HideBorder
\* clears it, and both refresh; after HideBorder every tiled window of an
\* attached screen has border width 0 and the whole of its slice, and after
\* ShowBorder it has the configured border width and its slice less twice
\* the border width in width and in height.
C25_BorderCommandsSetBorderWidth ==
    status = "running" =>
    \A visible \in BOOLEAN :
        LET r == CommandBorder(St, visible)
            bw == IF visible THEN BORDER_WIDTH ELSE 0
        IN  /\ Running(r)
            /\ \A s \in ScreenIds :
                   /\ r.scr[s].border_visible = visible
                   /\ IsSome(r.scr[s].monitor) =>
                          LET tiled == TiledWindows(r, s)
                          IN  \A i \in 1..Len(tiled) :
                                  LET g == r.geom[tiled[i]]
                                      slice == Slices(r, s)[i]
                                  IN  /\ g.border_width = bw
                                      /\ g.x = slice.x /\ g.y = slice.y
                                      /\ g.width = slice.width - 2 * bw
                                      /\ g.height = slice.height - 2 * bw

\* C26: forget_window(w) on the screen that holds w changes the input focus
\* only when w is the window that holds it: when the focus is on another
\* window, forget_window returns with the focus where it was.
C26_ForgetKeepsFocusOfOthers ==
    status = "running" =>
    \A s \in ScreenIds : \A w \in Range(scr[s].wins) :
        ~WindowContains(w, focus) =>
            LET r == ForgetWindow(St, s, w)
            IN  Running(r) /\ r.focus = focus

\* C27: focus_next on screen s, when the focus is on a client window of s
\* that is mapped and not floating, focuses the window after it in ascending
\* id order among the mapped, non-floating windows of s, the first after the
\* last; when the focus is not on s, or is on the background of s, it does
\* what focus_any does.
C27_FocusNextCyclesTiledWindows ==
    status = "running" =>
    \A s \in ScreenIds :
        LET r == FocusNext(St, s)
            tiled == TiledWindows(St, s)
        IN  /\ focus \in Range(tiled) =>
                   /\ Running(r)
                   /\ r.focus = tiled[(IndexOf(tiled, focus) % Len(tiled)) + 1]
            /\ (~ScreenContains(St, s, focus) \/ focus = Bg(s)) =>
                   r = FocusAny(St, s)

\* C28: map() on a window requests the input focus exactly when the state
\* of the window before the call is Created; on an Unmapped or a Mapped
\* window it leaves the focus where it was; after map() the state is Mapped;
\* and no step takes a window that a screen keeps from another state back
\* to Created.
C28_MapFocusesOnlyCreated ==
    /\ [](status = "running" =>
            \A w \in W :
                LET r == WindowMap(Begin, w)
                    requested == [op |-> "set_input_focus", id |-> w] \in Range(r.log)
                IN  /\ Running(r)
                    /\ r.win[w].state = "Mapped"
                    /\ requested <=> win[w].state = "Created"
                    /\ win[w].state \in {"Unmapped", "Mapped"} =>
                           /\ r.focus = focus
                           /\ \A i \in 1..Len(r.log) : r.log[i].op # "set_input_focus")
    /\ [][\A w \in W :
            (/\ win[w].state # "Created"
             /\ \E s \in ScreenIds : w \in Range(scr'[s].wins))
            => win'[w].state # "Created"]_vars

\* a handler has called map() on a window that was not Created: the window
\* is Mapped and no focus request was made for it
C28_Witness ==
    \E w \in W :
        /\ status = "running"
        /\ Tracked(w)
        /\ win[w].state = "Mapped"
        /\ [op |-> "map", id |-> w] \in Range(log)
        /\ [op |-> "set_input_focus", id |-> w] \notin Range(log)

\* C29: a drag is only ever one that a press with the modifier held started
\* on a client window; ButtonRelease leaves drag = None however it ends; and
\* when the client window dragged is still kept by a screen that holds a
\* monitor, ButtonRelease returns with the geometry of the frame, relative
\* to the origin of the monitor, as the floating rectangle of the window.
C29_ReleaseCommitsAndClearsDrag ==
    /\ IsSome(drag) => \E w \in W : Unwrap(drag).wid = Frame(w)
    /\ status = "running" => OnButtonRelease(St).drag = None
    /\ (status = "running" /\ IsSome(drag)) =>
           \A w \in W : \A s \in ScreenIds :
               (/\ Unwrap(drag).wid = Frame(w)
                /\ w \in Range(scr[s].wins)
                /\ IsSome(scr[s].monitor))
               => LET r == OnButtonRelease(St)
                      info == MonitorInfo(Unwrap(scr[s].monitor))
                  IN  /\ Running(r)
                      /\ r.win[w].float_geometry =
                             Some([x |-> geom[w].x - info.x,
                                   y |-> geom[w].y - info.y,
                                   width |-> geom[w].width,
                                   height |-> geom[w].height])

\* C30: a press with the modifier held on the frame of a window that is
\* already floating records the drag and leaves the floating rectangle of
\* the window as it was, and so does the release that follows it with no
\* pointer motion in between.
C30_PressOnFloatingKeepsRectangle ==
    status = "running" =>
    \A w \in W :
        (Frame(w) \in Clickable /\ IsFloating(St, w)) =>
            LET pressed == OnButtonPressAlt(St, Frame(w), 0, 0)
                released == OnButtonRelease(pressed)
            IN  /\ Running(pressed)
                /\ IsSome(pressed.drag)
                /\ Unwrap(pressed.drag).wid = Frame(w)
                /\ pressed.win[w].float_geometry = win[w].float_geometry
                /\ Running(released)
                /\ released.win[w].float_geometry = win[w].float_geometry

\* C31: when a handler that changes the input focus has completed, a mapped
\* window of a screen that holds a monitor is highlighted exactly when it
\* contains the focused window id, so at most one window is highlighted.
C31_HighlightFollowsFocus ==
    status = "running" =>
    /\ \A s \in ScreenIds : \A w \in Range(scr[s].wins) :
           (IsSome(scr[s].monitor) /\ IsMapped(St, w))
           => (win[w].highlighted <=> WindowContains(w, focus))
    /\ Cardinality({w \in W : Tracked(w) /\ win[w].highlighted}) <= 1

\* C32: a MapRequest for a top-level window that is not managed yet wraps it
\* in a Window that starts as Created (so that map() gives it the focus) and
\* inserts it into the screen that owns the focused window, and into no
\* other; when no screen owns the focus it is inserted into the screen under
\* the pointer, whichever monitor the pointer is on.
C32_NewWindowGoesToFocusedScreen ==
    status = "running" =>
    \A w \in W : \A pointer \in 0..(monitor_num - 1) :
        ~IsSome(WinManWindowMut(St, w)) =>
            LET r == OnMapRequestRoot(St, w)
                owner == IF focus = NONE THEN None ELSE ContainerOf(St, focus)
                target == IF IsSome(owner) THEN owner ELSE ScreenByMon(St, pointer)
            IN  /\ Running(r)
                /\ r.focus = w
                /\ IsSome(target)
                /\ \A s \in ScreenIds :
                       w \in Range(r.scr[s].wins) <=> s = Unwrap(target)

\* C33: a DestroyNotify for a client window that a screen keeps returns with
\* the window in no screen and with the layout of every screen refreshed; a
\* DestroyNotify for a window that no screen keeps, such as one that Close
\* has forgotten, returns Ok and changes nothing.
C33_DestroyNotifyForgetsWindow ==
    status = "running" =>
    \A w \in W :
        LET r == OnDestroyNotify(Reverted(w), w)
        IN  IF Tracked(w)
            THEN /\ Running(r)
                 /\ \A s \in ScreenIds : ~ScreenContains(r, s, w)
                 /\ \A s \in ScreenIds : w \notin Range(r.scr[s].wins)
                 /\ RefreshAll(r) = r
            ELSE r = Reverted(w)

\* a DestroyNotify has removed a window from a screen that keeps another,
\* and a window that Close has forgotten is in no screen
C33_Witness ==
    \E w \in W :
        /\ status = "running"
        /\ [op |-> "remove", id |-> w] \in Range(log)
        /\ \A i \in 1..Len(log) : log[i].op # "close"
        /\ ~Tracked(w)
        /\ \E v \in W : Tracked(v) /\ focus = v

\* C34: the UnmapNotify of an unmap that the window manager issued itself
\* (hide on detach, or on adding a window to a parked screen) leaves every
\* Window as it is, whenever it is handled; the UnmapNotify of the client
\* window, reported on its frame, sets the state to Unmapped; and no other
\* step takes a window that a screen keeps from Mapped to Unmapped.
C34_OwnUnmapIsNotClientUnmap ==
    /\ [](status = "running" =>
            \A w \in W :
                Tracked(w) =>
                    /\ OnUnmapNotifyEvent(Begin, Root, Frame(w)) = Begin
                    /\ OnUnmapNotifyEvent(Begin, Frame(w), w).win[w].state = "Unmapped")
    /\ [][(\E w \in W : /\ Tracked(w)
                         /\ win[w].state = "Mapped"
                         /\ win'[w].state = "Unmapped")
          => \E w \in W : ClientUnmaps(w)]_vars

\* the UnmapNotify of a frame that detach or add_window has hidden has been
\* handled: the window is hidden and still Mapped
C34_Witness ==
    \E w \in W :
        /\ status = "running"
        /\ log = <<[op |-> "UnmapNotify", id |-> Frame(w)]>>
        /\ win[w].hidden
        /\ win[w].state = "Mapped"

C36_DragTargetStaysFloating ==
    (status = "running" /\ IsSome(drag)) =>
        \A w \in W : \A s \in ScreenIds :
            (/\ Unwrap(drag).wid = Frame(w)
             /\ w \in Range(scr[s].wins)
             /\ IsSome(scr[s].monitor))
            => /\ IsFloating(St, w)
               /\ OnButtonRelease(St).status # "panic"

\* C37: while the window manager runs, the screen that contains the focused
\* window holds a monitor, some screen holds monitor 0 and monitor_num is
\* positive: the "focus inconsistent" and "Monitor lost" expectations hold
\* and the monitor index is never taken modulo zero.
C37_FocusedScreenHasMonitor ==
    status = "running" =>
        /\ monitor_num > 0
        /\ \E s \in ScreenIds : scr[s].monitor = Some(0)
        /\ \A s \in ScreenIds :
               ScreenContains(St, s, focus) => IsSome(scr[s].monitor)

\* C38: while the window manager runs, every monitor id below monitor_num is
\* held by exactly one screen and the number of screens that hold a monitor
\* is monitor_num, whatever Screen(id) commands and topology changes were
\* handled.
C38_EachMonitorOnOneScreen ==
    status = "running" =>
        /\ \A m \in 0..(monitor_num - 1) : Cardinality(HoldersOf(St, m)) = 1
        /\ Cardinality({s \in ScreenIds : IsSome(scr[s].monitor)}) = monitor_num

\* Screen(t) has moved the only monitor from the focused screen, which keeps
\* a window, to screen t that was parked
C38_Witness ==
    \E t \in ScreenIds :
        /\ status = "running"
        /\ Len(log) > 1 /\ log[1] = [op |-> "Screen", id |-> t]
        /\ log[2] = [op |-> "set_input_focus", id |-> Root]
        /\ monitor_num = 1
        /\ scr[t].monitor = Some(0)
        /\ \E s \in ScreenIds \ {t} :
               scr[s].monitor = None /\ scr[s].wins # <<>>

\* C39: hide is only called on a window that is not hidden: a mapped window
\* of a screen that holds a monitor is not hidden, so the detach of any
\* screen, and the add_window of a mapped window to a parked screen, pass
\* the assertion of Window::hide.
C39_HideOnlyWhatIsShown ==
    status = "running" =>
        \A s \in ScreenIds :
            /\ IsSome(scr[s].monitor) =>
                   \A w \in Range(scr[s].wins) :
                       IsMapped(St, w) => ~win[w].hidden
            /\ Detach(St, s).status # "panic"

\* C40: the frame height that a resize with the secondary button hands to
\* configure is at least the offset of the decoration strip of the window,
\* so the height of the client window, frame height minus offset, is not
\* negative; this holds for every pointer position of the drag.
C40_FrameHeightCoversStrip ==
    (status = "running" /\ IsSome(drag)) =>
        \A w \in W : \A p \in PointerPos :
            (Unwrap(drag).wid = Frame(w) /\ Tracked(w)) =>
                LET d == Unwrap(drag)
                    h == Max(d.window_h + (p - d.start_y), 1)
                    strip == IF win[w].frame_visible THEN FRAME_STRIP ELSE 0
                IN  /\ h >= strip
                    /\ OnMotionNotify(St, "right", p, p).status # "panic"

\* the mapped, non-floating windows of screen s, as a set
TiledSet(s) == {w \in Range(scr[s].wins) : IsMapped(St, w) /\ ~IsFloating(St, w)}

\* the position of w among the windows of set in ascending order of frame id
Rank(set, w) == Cardinality({v \in set : Frame(v) <= Frame(w)})

\* C5: whatever the order in which the windows were added, refresh_layout
\* gives each mapped non-floating window of an attached screen the rectangle
\* that the active strategy, on the monitor's layout area, gives the position
\* the window has in the set of such windows ordered by id.
C5_LayoutDependsOnSetOnly ==
    \A s \in ScreenIds :
        (status = "running" /\ IsSome(scr[s].monitor))
        => LET name == LayoutRing[scr[s].current_layout + 1]
               area == LayoutArea(name, MonitorInfo(Unwrap(scr[s].monitor)))
               confs == StrategyLayout(name, area, Cardinality(TiledSet(s)),
                                       scr[s].ratio, scr[s].border_visible)
               after == RefreshLayout(St, s)
           IN  \A w \in TiledSet(s) :
                   after.geom[w] = confs[Rank(TiledSet(s), w)]

\* the last handler added a window to an attached screen that already laid
\* out a window of higher id, and both are laid out
C5_Witness ==
    /\ status = "running"
    /\ \E s \in ScreenIds : \E w, v \in TiledSet(s) :
           /\ IsSome(scr[s].monitor)
           /\ \E i \in 1..Len(log) : log[i] = [op |-> "insert", id |-> w]
           /\ v > w
           /\ geom[w] # geom[v]

\* the strategy under test has laid out its slice
Computed == IsSome(lay) /\ Unwrap(lay).confs # <<>>

\* C6: the horizontal strategy with no border gives the i-th of N windows
\* (i from 0) width W/N at x = monitor.x + i*(W/N), and the y and the height
\* of the monitor rectangle it is given.
C6_HorizontalEqualSlices ==
    (Computed /\ Unwrap(lay).name = "horizontal" /\ ~Unwrap(lay).border_visible)
    => LET c == Unwrap(lay)
           slice == c.mon.width \div c.n
       IN  \A i \in 1..c.n :
               /\ c.confs[i].width = slice
               /\ c.confs[i].x = c.mon.x + (i - 1) * slice
               /\ c.confs[i].y = c.mon.y
               /\ c.confs[i].height = c.mon.height

\* the rectangle of request conf with its border on all sides
Outer(conf) ==
    [x |-> conf.x, y |-> conf.y,
     width |-> conf.width + 2 * conf.border_width,
     height |-> conf.height + 2 * conf.border_width]

Inside(r, mon) ==
    /\ mon.x <= r.x /\ r.x + r.width <= mon.x + mon.width
    /\ mon.y <= r.y /\ r.y + r.height <= mon.y + mon.height

Disjoint(a, b) ==
    \/ a.x + a.width <= b.x \/ b.x + b.width <= a.x
    \/ a.y + a.height <= b.y \/ b.y + b.height <= a.y

\* C7: the horizontal and vertical strategies, with or without border, for
\* every N >= 1 and every ratio they can reach, configure each window of the
\* slice once, with a width and a height that are not negative, and the
\* rectangles with their borders are pairwise disjoint and inside the monitor
\* rectangle.
C7_SplitRectanglesDisjointInside ==
    Computed
    => LET c == Unwrap(lay)
       IN  /\ DOMAIN c.confs = 1..c.n
           /\ \A i \in 1..c.n :
                  /\ c.confs[i].width >= 0 /\ c.confs[i].height >= 0
                  /\ Inside(Outer(c.confs[i]), c.mon)
           /\ \A i, j \in 1..c.n :
                  i < j => Disjoint(Outer(c.confs[i]), Outer(c.confs[j]))

====
